---- MODULE Spec2Model ----
(***************************************************************************)
(* A model of populate_db.py: the text chunker split_text_into_chunks and *)
(* the batching and thread-pool import of import_with_batching.           *)
(*                                                                         *)
(* A Python str is modelled as a sequence of one-character strings.       *)
(***************************************************************************)
EXTENDS Integers, Sequences, FiniteSets, TLC

(***************************************************************************)
(* Bounds of the model.                                                    *)
(***************************************************************************)
\* longest input text of split_text_into_chunks
MaxLen == 6
\* largest max_chunk_size
MaxChunkSize == 3

\* The characters of the input texts: a letter, a sentence end, a blank and
\* a line feed.
Chars == {"a", ".", " ", "\n"}

\* str.strip() and the regular expression's \s: white space.
IsSpace(c) == c \in {" ", "\n", "\t", "\r"}

\* The character class [.!?] of the sentence boundary.
IsSentenceEnd(c) == c \in {".", "!", "?"}

\* s[i:] of Python, with i counted from 1: the characters from the i-th on.
From(s, i) == SubSeq(s, i, Len(s))

(***************************************************************************)
(* split_text_into_chunks: the pure helpers.                               *)
(***************************************************************************)
\* First index i with s[i] = s[i+1] = "\n", or 0.
RECURSIVE FindBlankLine(_, _)
FindBlankLine(s, i) ==
    IF i >= Len(s) THEN 0
    ELSE IF s[i] = "\n" /\ s[i + 1] = "\n" THEN i
    ELSE FindBlankLine(s, i + 1)

\* text.split('\n\n'): the pieces between non-overlapping separators, found
\* left to right; empty pieces are kept.
RECURSIVE SplitParagraphs(_)
SplitParagraphs(s) ==
    LET i == FindBlankLine(s, 1)
    IN  IF i = 0 THEN <<s>>
        ELSE <<SubSeq(s, 1, i - 1)>> \o SplitParagraphs(From(s, i + 2))

RECURSIVE LStrip(_)
LStrip(s) == IF s # <<>> /\ IsSpace(Head(s)) THEN LStrip(Tail(s)) ELSE s

RECURSIVE RStrip(_)
RStrip(s) ==
    IF s # <<>> /\ IsSpace(s[Len(s)]) THEN RStrip(SubSeq(s, 1, Len(s) - 1)) ELSE s

\* str.strip()
Strip(s) == RStrip(LStrip(s))

\* First index i >= 2 at which (?<=[.!?])\s+ matches: s[i] is white space and
\* s[i-1] ends a sentence; 0 when there is none.
RECURSIVE FindBoundary(_, _)
FindBoundary(s, i) ==
    IF i > Len(s) THEN 0
    ELSE IF i >= 2 /\ IsSpace(s[i]) /\ IsSentenceEnd(s[i - 1]) THEN i
    ELSE FindBoundary(s, i + 1)

\* re.split(r'(?<=[.!?])\s+', paragraph): the match is greedy, it takes the
\* whole run of white space; what follows it is split in turn.
RECURSIVE SplitSentences(_)
SplitSentences(s) ==
    LET i == FindBoundary(s, 1)
    IN  IF i = 0 THEN <<s>>
        ELSE <<SubSeq(s, 1, i - 1)>> \o SplitSentences(LStrip(From(s, i)))

\* The fit test of both branches: len(current_chunk) + len(unit) <= max_chunk_size.
FitsBufferOnly(current, unit, max) == Len(current) <= max
Fits(current, unit, max) == Len(current) + Len(unit) <= max

\* "if current_chunk:" of lines 42 and 52: the buffer holds something.
BufferHeldAlways(current) == TRUE
BufferHeld(current) == current # <<>>

\* current_chunk += " " + sentence if current_chunk else sentence
JoinSentenceByBlankLine(current, sentence) ==
    IF current # <<>> THEN current \o <<"\n", "\n">> \o sentence ELSE sentence
JoinSentence(current, sentence) ==
    IF current # <<>> THEN current \o <<" ">> \o sentence ELSE sentence

\* current_chunk += "\n\n" + paragraph if current_chunk else paragraph
JoinParagraphLoseBuffer(current, paragraph) == paragraph
JoinParagraphBySpace(current, paragraph) ==
    IF current # <<>> THEN current \o <<" ">> \o paragraph ELSE paragraph
JoinParagraph(current, paragraph) ==
    IF current # <<>> THEN current \o <<"\n", "\n">> \o paragraph ELSE paragraph

(***************************************************************************)
(* import_with_batching: the bounds, the constants and the pure helpers.   *)
(***************************************************************************)
\* most files of the directory walk
MaxFiles == 2
\* most chunks one file yields
MaxPerFile == 2
\* largest batch_size
MaxBatch == 3
\* largest reading of the clock, in ticks after start_time
MaxTime == 1

\* The interval of the progress report, line 158: 5000 in the source, scaled
\* down with the sizes of the runs; the test on it is the source's.
ProgressInterval == 4

\* num_workers, line 16, is 16; the smaller pools make batches wait in the
\* queue of the executor.
NumWorkersValues == {1, 2, 16}

\* The outcome of a file that cannot be read or is of no supported type.
FileFails == -1

\* What process_file returns: None (lines 85, 111, 115) or a list of chunk
\* records.
None == [none |-> TRUE, list |-> <<>>]
List(records) == [none |-> FALSE, list |-> records]

Min(a, b) == IF a <= b THEN a ELSE b

\* process_file (lines 88-115) on the f-th file of the walk, whose outcome is
\* FileFails or the number of its chunks: the chunk records in chunk order.
ProcessFileKeepsPartial(f, outcome) ==
    IF outcome = FileFails THEN List(<<<<f, 1>>>>) ELSE List([c \in 1..outcome |-> <<f, c>>])
ProcessFile(f, outcome) ==
    IF outcome = FileFails THEN None ELSE List([c \in 1..outcome |-> <<f, c>>])

\* "if processed_chunks:" None and the empty list are both false.
Truthy(processed) == ~processed.none /\ processed.list # <<>>

\* range(0, n, step) for step > 0
RECURSIVE RangeFromInclusive(_, _, _)
RangeFromInclusive(i, n, step) ==
    IF i > n THEN <<>> ELSE <<i>> \o RangeFromInclusive(i + step, n, step)
RECURSIVE RangeFrom(_, _, _)
RangeFrom(i, n, step) ==
    IF i >= n THEN <<>> ELSE <<i>> \o RangeFrom(i + step, n, step)

\* s[i:j] of Python for 0 <= i <= j: the end is clipped to the length.
PySliceShort(s, i, j) == SubSeq(s, i + 1, Min(j - 1, Len(s)))
PySlice(s, i, j) == SubSeq(s, i + 1, Min(j, Len(s)))

\* Line 146: [all_chunks[i:i + batch_size] for i in range(0, len(all_chunks), batch_size)]
Batches(all, size) ==
    LET starts == RangeFrom(0, Len(all), size)
    IN  [k \in 1..Len(starts) |-> PySlice(all, starts[k], starts[k] + size)]

\* process_batch (lines 118-132) as the future sees it: the try/except
\* prints what the sink raises and returns normally either way.
ProcessBatchRaises(sink_ok) == IF sink_ok THEN "returned" ELSE "raised"
ProcessBatch(sink_ok) == "returned"

\* A future is done once its call has returned or raised.
IsDone(f) == f \in {"returned", "raised"}

\* future.result(), line 156, blocks until the future is done.
ResultReadyNoWait(f) == TRUE
ResultReadyOnceStarted(f) == f # "queued"
ResultReady(f) == IsDone(f)

\* Lines 151-152: the loop over the batches ends when each has its future.
AllSubmittedAfterFirst(fs, bs) == Len(fs) >= 1 \/ bs = <<>>
AllSubmitted(fs, bs) == Len(fs) = Len(bs)

\* Lines 169-171: the handler prints the exception and raises it again: the
\* caller of import_with_batching gets the exception itself.
ReraiseSwallowed(exception) == "none"
Reraise(exception) == exception

\* Line 158: completed % 5000 == 0
ProgressDue(n) == n % ProgressInterval = 0

VARIABLES
    \* split_text_into_chunks
    text,            \* the argument
    max_chunk_size,  \* the argument
    spc,             \* where the function is: "start", "loop", "sentences", "done"
    paragraphs,      \* the paragraphs the outer loop has still to visit
    sentences,       \* the sentences the inner loop has still to visit
    chunks,          \* the list returned
    current_chunk,   \* the accumulating buffer
    cur_units,       \* history: the number of units joined into current_chunk
    chunk_units,     \* history: for each chunk, the number of units joined into it
    \* import_with_batching
    files,           \* the walk: for each file, FileFails or the number of its chunks
    batch_size,      \* the argument
    num_workers,     \* the size of the pool
    pc,              \* where the main thread is
    walked,          \* the files the walk has visited
    all_chunks,      \* the flat list of chunk records
    batches,         \* the list of batches
    futures,         \* the state of each future submitted: "queued", "running", "returned", "raised"
    sink,            \* for each batch, how its sink call ended: "none", "ok", "error"
    sink_calls,      \* history: for each batch, the calls of process_batch on it
    completed,       \* the local counter of the collecting loop
    collected,       \* the futures the collecting loop has been through
    elapsed,         \* the last reading of time.time() - start_time
    observations,    \* the progress reports printed: <<completed, elapsed>>
    summary,         \* the final report printed, or NoSummary
    error            \* the exception import_with_batching raised, or "none"

splitVars == <<text, max_chunk_size, spc, paragraphs, sentences, chunks,
               current_chunk, cur_units, chunk_units>>

runVars == <<files, batch_size, num_workers, pc, walked, all_chunks, batches,
             futures, sink, sink_calls, completed, collected, elapsed,
             observations, summary, error>>

vars == <<splitVars, runVars>>

NoSummary == <<>>

\* The state of import_with_batching before any call of it.
RunIdle ==
    /\ files = <<>>
    /\ batch_size = 0
    /\ num_workers = 16
    /\ pc = "idle"
    /\ walked = 0
    /\ all_chunks = <<>>
    /\ batches = <<>>
    /\ futures = <<>>
    /\ sink = <<>>
    /\ sink_calls = <<>>
    /\ completed = 0
    /\ collected = 0
    /\ elapsed = 0
    /\ observations = <<>>
    /\ summary = NoSummary
    /\ error = "none"

\* The state of split_text_into_chunks before any call of it.
SplitIdle ==
    /\ text = <<>>
    /\ max_chunk_size = 0
    /\ spc = "idle"
    /\ paragraphs = <<>>
    /\ sentences = <<>>
    /\ chunks = <<>>
    /\ current_chunk = <<>>
    /\ cur_units = 0
    /\ chunk_units = <<>>

\* All texts of at most n characters.
Texts(n) == UNION {[1..k -> Chars] : k \in 0..n}

InitSplit ==
    /\ text \in Texts(MaxLen)
    /\ max_chunk_size \in 0..MaxChunkSize
    /\ spc = "start"
    /\ paragraphs = <<>>
    /\ sentences = <<>>
    /\ chunks = <<>>
    /\ current_chunk = <<>>
    /\ cur_units = 0
    /\ chunk_units = <<>>
    /\ RunIdle

\* Lines 25-27: the paragraphs, the empty list and the empty buffer.
SplitStart ==
    /\ spc = "start"
    /\ paragraphs' = SplitParagraphs(text)
    /\ chunks' = <<>>
    /\ current_chunk' = <<>>
    /\ cur_units' = 0
    /\ chunk_units' = <<>>
    /\ spc' = "loop"
    /\ UNCHANGED <<text, max_chunk_size, sentences>>
    /\ UNCHANGED runVars

\* Lines 29-37 and 45-50: one iteration of the outer loop. A blank paragraph
\* is skipped, an oversized one is handed to the inner loop, any other is
\* joined to the buffer when it fits and starts a new buffer otherwise.
ParagraphStep ==
    /\ spc = "loop"
    /\ paragraphs # <<>>
    /\ paragraphs' = Tail(paragraphs)
    /\ LET paragraph == Strip(Head(paragraphs))
       IN  IF paragraph = <<>>
           THEN UNCHANGED <<spc, sentences, chunks, current_chunk, cur_units, chunk_units>>
           ELSE IF Len(paragraph) > max_chunk_size
           THEN /\ sentences' = SplitSentences(paragraph)
                /\ spc' = "sentences"
                /\ UNCHANGED <<chunks, current_chunk, cur_units, chunk_units>>
           ELSE IF Fits(current_chunk, paragraph, max_chunk_size)
           THEN /\ current_chunk' = JoinParagraph(current_chunk, paragraph)
                /\ cur_units' = cur_units + 1
                /\ UNCHANGED <<spc, sentences, chunks, chunk_units>>
           ELSE /\ chunks' = Append(chunks, Strip(current_chunk))
                /\ chunk_units' = Append(chunk_units, cur_units)
                /\ current_chunk' = paragraph
                /\ cur_units' = 1
                /\ UNCHANGED <<spc, sentences>>
    /\ UNCHANGED <<text, max_chunk_size>>
    /\ UNCHANGED runVars

\* Lines 38-44: one iteration of the inner loop, over the sentences of an
\* oversized paragraph; after the last sentence the outer loop goes on.
SentenceStep ==
    /\ spc = "sentences"
    /\ sentences # <<>>
    /\ sentences' = Tail(sentences)
    /\ spc' = IF Tail(sentences) = <<>> THEN "loop" ELSE "sentences"
    /\ LET sentence == Head(sentences)
       IN  IF Fits(current_chunk, sentence, max_chunk_size)
           THEN /\ current_chunk' = JoinSentence(current_chunk, sentence)
                /\ cur_units' = cur_units + 1
                /\ UNCHANGED <<chunks, chunk_units>>
           ELSE /\ IF BufferHeld(current_chunk)
                   THEN /\ chunks' = Append(chunks, Strip(current_chunk))
                        /\ chunk_units' = Append(chunk_units, cur_units)
                   ELSE UNCHANGED <<chunks, chunk_units>>
                /\ current_chunk' = sentence
                /\ cur_units' = 1
    /\ UNCHANGED <<text, max_chunk_size, paragraphs>>
    /\ UNCHANGED runVars

\* Lines 52-55: the last buffer is flushed and the list returned.
SplitFinish ==
    /\ spc = "loop"
    /\ paragraphs = <<>>
    /\ spc' = "done"
    /\ IF BufferHeld(current_chunk)
       THEN /\ chunks' = Append(chunks, Strip(current_chunk))
            /\ chunk_units' = Append(chunk_units, cur_units)
       ELSE UNCHANGED <<chunks, chunk_units>>
    /\ UNCHANGED <<text, max_chunk_size, paragraphs, sentences, current_chunk, cur_units>>
    /\ UNCHANGED runVars

NextSplit == SplitStart \/ ParagraphStep \/ SentenceStep \/ SplitFinish

SpecSplit == InitSplit /\ [][NextSplit]_vars

\* The call split_text_into_chunks("Para one.\n\nPara two is a bit longer
\* but still short.", max_chunk_size), for max_chunk_size up to 60.
ParaOne ==
    <<"P", "a", "r", "a", " ", "o", "n", "e", ".">>
ParaTwo ==
    <<"P", "a", "r", "a", " ", "t", "w", "o", " ", "i", "s", " ", "a", " "
    , "b", "i", "t", " ", "l", "o", "n", "g", "e", "r", " ", "b", "u", "t"
    , " ", "s", "t", "i", "l", "l", " ", "s", "h", "o", "r", "t", ".">>
TwoParagraphs == ParaOne \o <<"\n", "\n">> \o ParaTwo

InitTwoParagraphs ==
    /\ text = TwoParagraphs
    /\ max_chunk_size \in 0..60
    /\ spc = "start"
    /\ paragraphs = <<>>
    /\ sentences = <<>>
    /\ chunks = <<>>
    /\ current_chunk = <<>>
    /\ cur_units = 0
    /\ chunk_units = <<>>
    /\ RunIdle

SpecTwoParagraphs == InitTwoParagraphs /\ [][NextSplit]_vars

(***************************************************************************)
(* import_with_batching: the main thread and the workers of the pool.      *)
(***************************************************************************)
FileOutcomes == {FileFails} \cup 0..MaxPerFile

InitRun ==
    /\ files \in UNION {[1..k -> FileOutcomes] : k \in 0..MaxFiles}
    /\ batch_size \in 0..MaxBatch
    /\ num_workers \in NumWorkersValues
    /\ pc = "walk"
    /\ walked = 0
    /\ all_chunks = <<>>
    /\ batches = <<>>
    /\ futures = <<>>
    /\ sink = <<>>
    /\ sink_calls = <<>>
    /\ completed = 0
    /\ collected = 0
    /\ elapsed = 0
    /\ observations = <<>>
    /\ summary = NoSummary
    /\ error = "none"

Init == InitRun /\ SplitIdle

\* Lines 139-144: the walk visits one file; what process_file returns is
\* appended to all_chunks unless it is None or empty.
Walk ==
    /\ pc = "walk"
    /\ walked < Len(files)
    /\ walked' = walked + 1
    /\ LET processed_chunks == ProcessFile(walked + 1, files[walked + 1])
       IN  all_chunks' = IF Truthy(processed_chunks)
                         THEN all_chunks \o processed_chunks.list
                         ELSE all_chunks
    /\ UNCHANGED <<files, batch_size, num_workers, pc, batches, futures, sink,
                   sink_calls, completed, collected, elapsed, observations,
                   summary, error>>
    /\ UNCHANGED splitVars

\* Lines 146-147: the batches and start_time. range() raises ValueError for
\* a step of zero; lines 169-171 print it and raise it again.
Assemble ==
    /\ pc = "walk"
    /\ walked = Len(files)
    /\ IF batch_size = 0
       THEN /\ pc' = "error"
            /\ error' = Reraise("ValueError")
            /\ UNCHANGED <<batches, sink, sink_calls>>
       ELSE /\ batches' = Batches(all_chunks, batch_size)
            /\ sink' = [k \in 1..Len(batches') |-> "none"]
            /\ sink_calls' = [k \in 1..Len(batches') |-> 0]
            /\ pc' = "submit"
            /\ error' = error
    /\ elapsed' = 0
    /\ UNCHANGED <<files, batch_size, num_workers, walked, all_chunks, futures,
                   completed, collected, observations, summary>>
    /\ UNCHANGED splitVars

\* Lines 151-152: executor.submit(process_batch, batch) queues the call and
\* returns its future.
Submit ==
    /\ pc = "submit"
    /\ Len(futures) < Len(batches)
    /\ futures' = Append(futures, "queued")
    /\ UNCHANGED <<files, batch_size, num_workers, pc, walked, all_chunks,
                   batches, sink, sink_calls, completed, collected, elapsed,
                   observations, summary, error>>
    /\ UNCHANGED splitVars

\* Line 154: every batch is submitted; the collecting loop starts.
SubmitDone ==
    /\ pc = "submit"
    /\ AllSubmitted(futures, batches)
    /\ completed' = 0
    /\ collected' = 0
    /\ pc' = "collect"
    /\ UNCHANGED <<files, batch_size, num_workers, walked, all_chunks, batches,
                   futures, sink, sink_calls, elapsed, observations, summary,
                   error>>
    /\ UNCHANGED splitVars

Running == {j \in 1..Len(futures) : futures[j] = "running"}

\* A worker of the pool takes the call at the head of the queue, when fewer
\* than num_workers calls are running, and enters process_batch.
Start(j) ==
    /\ j \in 1..Len(futures)
    /\ futures[j] = "queued"
    /\ \A i \in 1..(j - 1) : futures[i] # "queued"
    /\ Cardinality(Running) < num_workers
    /\ futures' = [futures EXCEPT ![j] = "running"]
    /\ sink_calls' = [sink_calls EXCEPT ![j] = @ + 1]
    /\ UNCHANGED <<files, batch_size, num_workers, pc, walked, all_chunks,
                   batches, sink, completed, collected, elapsed, observations,
                   summary, error>>
    /\ UNCHANGED splitVars

\* Lines 120-132: the sink call of batch j ends, well or with an exception,
\* and process_batch ends.
Finish(j, sink_ok) ==
    /\ j \in 1..Len(futures)
    /\ futures[j] = "running"
    /\ sink' = [sink EXCEPT ![j] = IF sink_ok THEN "ok" ELSE "error"]
    /\ futures' = [futures EXCEPT ![j] = ProcessBatch(sink_ok)]
    /\ UNCHANGED <<files, batch_size, num_workers, pc, walked, all_chunks,
                   batches, sink_calls, completed, collected, elapsed,
                   observations, summary, error>>
    /\ UNCHANGED splitVars

\* Lines 155-162: one iteration of the collecting loop. future.result()
\* waits for the next future in submission order and raises what its call
\* raised; completed grows by batch_size; when it is a multiple of the
\* interval the clock is read and the rate computed, which raises
\* ZeroDivisionError for an elapsed time of zero. An exception leaves the
\* with block.
Collect ==
    /\ pc = "collect"
    /\ collected < Len(futures)
    /\ ResultReady(futures[collected + 1])
    /\ IF futures[collected + 1] = "raised"
       THEN /\ pc' = "unwind"
            /\ error' = "SinkError"
            /\ UNCHANGED <<completed, collected, elapsed, observations>>
       ELSE /\ completed' = completed + batch_size
            /\ collected' = collected + 1
            /\ IF ProgressDue(completed')
               THEN \E t \in elapsed..MaxTime :
                       /\ elapsed' = t
                       /\ IF t = 0
                          THEN /\ pc' = "unwind"
                               /\ error' = "ZeroDivisionError"
                               /\ observations' = observations
                          ELSE /\ observations' = Append(observations, <<completed', t>>)
                               /\ UNCHANGED <<pc, error>>
               ELSE UNCHANGED <<pc, error, elapsed, observations>>
    /\ UNCHANGED <<files, batch_size, num_workers, walked, all_chunks, batches,
                   futures, sink, sink_calls, summary>>
    /\ UNCHANGED splitVars

AllDone == \A j \in 1..Len(futures) : IsDone(futures[j])

\* Line 149, leaving the with block after the loop: shutdown(wait=True)
\* returns when every submitted call has ended.
ExitPool ==
    /\ pc = "collect"
    /\ collected = Len(futures)
    /\ AllDone
    /\ pc' = "summary"
    /\ UNCHANGED <<files, batch_size, num_workers, walked, all_chunks, batches,
                   futures, sink, sink_calls, completed, collected, elapsed,
                   observations, summary, error>>
    /\ UNCHANGED splitVars

\* Line 149, leaving the with block with an exception: shutdown(wait=True)
\* lets the workers run every queued call, then lines 169-171 print the
\* exception and raise it again.
Unwind ==
    /\ pc = "unwind"
    /\ AllDone
    /\ pc' = "error"
    /\ error' = Reraise(error)
    /\ UNCHANGED <<files, batch_size, num_workers, walked, all_chunks, batches,
                   futures, sink, sink_calls, completed, collected, elapsed,
                   observations, summary>>
    /\ UNCHANGED splitVars

\* Lines 164-167: the elapsed time, the final rate and the two lines of the
\* summary; the division raises ZeroDivisionError for an elapsed time of zero.
Summary ==
    /\ pc = "summary"
    /\ \E t \in elapsed..MaxTime :
          /\ elapsed' = t
          /\ IF t = 0
             THEN /\ pc' = "error"
                  /\ error' = Reraise("ZeroDivisionError")
                  /\ summary' = summary
             ELSE /\ pc' = "finished"
                  /\ summary' = [chunks |-> Len(all_chunks), elapsed_time |-> t]
                  /\ error' = error
    /\ UNCHANGED <<files, batch_size, num_workers, walked, all_chunks, batches,
                   futures, sink, sink_calls, completed, collected, observations>>
    /\ UNCHANGED splitVars

MainThread ==
    Walk \/ Assemble \/ Submit \/ SubmitDone \/ Collect \/ ExitPool \/ Unwind \/ Summary

Workers ==
    \E j \in 1..(MaxFiles * MaxPerFile) :
        Start(j) \/ \E sink_ok \in BOOLEAN : Finish(j, sink_ok)

Next ==
    \/ Walk
    \/ Assemble
    \/ Submit
    \/ SubmitDone
    \/ Collect
    \/ ExitPool
    \/ Unwind
    \/ Summary
    \/ \E j \in 1..(MaxFiles * MaxPerFile) : Start(j)
    \/ \E j \in 1..(MaxFiles * MaxPerFile), sink_ok \in BOOLEAN : Finish(j, sink_ok)

Spec == Init /\ [][Next]_vars

\* The main thread and the workers keep running, and a sink call returns.
SpecLive == Spec /\ WF_vars(MainThread) /\ WF_vars(Workers)

\* The call of import_with_batching with batch_size = 8 on a directory of
\* three files that yield 10, 5 and 1 chunks in walk order.
InitThreeFiles ==
    /\ files = <<10, 5, 1>>
    /\ batch_size = 8
    /\ num_workers \in NumWorkersValues
    /\ pc = "walk"
    /\ walked = 0
    /\ all_chunks = <<>>
    /\ batches = <<>>
    /\ futures = <<>>
    /\ sink = <<>>
    /\ sink_calls = <<>>
    /\ completed = 0
    /\ collected = 0
    /\ elapsed = 0
    /\ observations = <<>>
    /\ summary = NoSummary
    /\ error = "none"
    /\ SplitIdle

SpecThreeFiles == InitThreeFiles /\ [][Next]_vars

(***************************************************************************)
(* import_with_batching under cancellation. The function takes no          *)
(* cancellation signal; what can stop a run is the KeyboardInterrupt that  *)
(* Python raises in the main thread.                                       *)
(***************************************************************************)
\* KeyboardInterrupt in the main thread. It is no Exception: line 169 does
\* not catch it and it reaches the caller. Raised inside the with block of
\* line 149 it first runs the executor's shutdown(wait=True), which waits
\* for the running calls and for every call still queued.
Interrupt ==
    /\ pc \in {"walk", "submit", "collect", "summary"}
    /\ error' = "KeyboardInterrupt"
    /\ pc' = IF pc \in {"submit", "collect"} THEN "unwind" ELSE "error"
    /\ UNCHANGED <<files, batch_size, num_workers, walked, all_chunks, batches,
                   futures, sink, sink_calls, completed, collected, elapsed,
                   observations, summary>>
    /\ UNCHANGED splitVars

NextCancel == Next \/ Interrupt

SpecCancel == Init /\ [][NextCancel]_vars

(***************************************************************************)
(* Properties of split_text_into_chunks.                                   *)
(***************************************************************************)
RECURSIVE SumSeq(_)
SumSeq(s) == IF s = <<>> THEN 0 ELSE Head(s) + SumSeq(Tail(s))

RECURSIVE Flatten(_)
Flatten(ss) == IF ss = <<>> THEN <<>> ELSE Head(ss) \o Flatten(Tail(ss))

\* s without its white space
NoSpace(s) == SelectSeq(s, LAMBDA c : ~IsSpace(c))

\* The units of a text in source order: its non-blank trimmed paragraphs, an
\* oversized paragraph being replaced by its sentences.
RECURSIVE UnitsOf(_, _)
UnitsOf(ps, max) ==
    IF ps = <<>> THEN <<>>
    ELSE LET p == Strip(Head(ps))
         IN  (IF p = <<>> THEN <<>>
              ELSE IF Len(p) > max THEN SplitSentences(p)
              ELSE <<p>>) \o UnitsOf(Tail(ps), max)

SourceUnits == UnitsOf(SplitParagraphs(text), max_chunk_size)

\* C1: every returned chunk is at most max_chunk_size long, unless it is one
\* single unit (a sentence, or a paragraph without a sentence boundary) that
\* is itself longer; a chunk joined from two or more units never exceeds
\* max_chunk_size.
C1_ChunkWithinMax ==
    \A i \in 1..Len(chunks) :
        Len(chunks[i]) <= max_chunk_size \/ chunk_units[i] = 1

\* C2: the chunks hold the units of the text exactly once each and in source
\* order: chunk i is, white space aside, the run of chunk_units[i] source
\* units that follows the units of the chunks before it, the runs cover all
\* the units, and the chunks together are, white space aside, the text.
C2_UnitsOnceInOrder ==
    spc = "done" =>
        /\ SumSeq(chunk_units) = Len(SourceUnits)
        /\ \A i \in 1..Len(chunks) :
              LET before == SumSeq(SubSeq(chunk_units, 1, i - 1))
              IN  NoSpace(chunks[i]) =
                    NoSpace(Flatten(SubSeq(SourceUnits, before + 1, before + chunk_units[i])))
        /\ NoSpace(Flatten(chunks)) = NoSpace(text)

\* C2's case: a finished split of several chunks, made of paragraphs and of
\* the sentences of an oversized paragraph, one chunk joining several units.
C2_Witness ==
    /\ spc = "done"
    /\ Len(chunks) >= 2
    /\ \E i \in 1..Len(chunks) : chunk_units[i] >= 2
    /\ \E i \in 1..Len(SplitParagraphs(text)) :
          Len(Strip(SplitParagraphs(text)[i])) > max_chunk_size
    /\ \E i \in 1..Len(SplitParagraphs(text)) :
          Len(Strip(SplitParagraphs(text)[i])) \in 1..max_chunk_size

(***************************************************************************)
(* Properties of import_with_batching.                                     *)
(***************************************************************************)
\* Line 146 has been run: the batches are assembled.
Assembled == pc \notin {"idle", "walk"} /\ batch_size > 0

\* The with block of line 149 has been left.
PoolLeft == pc \in {"summary", "finished", "error"} /\ batch_size > 0

CeilDiv(n, b) == (n + b - 1) \div b

\* The chunks of the batches whose sink call succeeded.
RECURSIVE SucceededSize(_)
SucceededSize(k) ==
    IF k = 0 THEN 0
    ELSE (IF sink[k] = "ok" THEN Len(batches[k]) ELSE 0) + SucceededSize(k - 1)

SinkFailures == {j \in 1..Len(sink) : sink[j] = "error"}

\* C3: for N chunk records and batch_size B > 0 the assembly yields
\* ceil(N/B) batches, every batch but the last of size B, the last of size
\* N mod B (B when B divides N; no batch when N = 0), and the batches
\* concatenated in order are the original sequence.
C3_BatchAssembly ==
    Assembled =>
        LET N == Len(all_chunks)
            B == batch_size
            K == Len(batches)
        IN  /\ K = CeilDiv(N, B)
            /\ \A k \in 1..(K - 1) : Len(batches[k]) = B
            /\ K > 0 => Len(batches[K]) = (IF N % B = 0 THEN B ELSE N % B)
            /\ N = 0 => batches = <<>>
            /\ Flatten(batches) = all_chunks

\* C3's case: several batches, the last one shorter than batch_size.
C3_Witness ==
    /\ Assembled
    /\ Len(batches) >= 2
    /\ Len(all_chunks) % batch_size # 0
    /\ batch_size >= 2

\* C4: a sink failure never stops the run: no failure of a sink call reaches
\* the collecting loop, and once the pool is left every batch has been
\* handed to the sink and its call has ended, whichever calls failed.
C4_SinkFailureNeverStops ==
    /\ error # "SinkError"
    /\ \A j \in 1..Len(futures) : futures[j] # "raised"
    /\ PoolLeft =>
          /\ Len(futures) = Len(batches)
          /\ \A j \in 1..Len(batches) : sink_calls[j] >= 1 /\ sink[j] # "none"
    /\ pc \in {"summary", "finished"} => collected = Len(batches)

\* C4's case: a run that ended with its summary although the sink calls of
\* some batches failed and those of later batches did not.
C4_Witness ==
    /\ pc = "finished"
    /\ \E j \in 1..Len(batches) :
          /\ sink[j] = "error"
          /\ \E k \in (j + 1)..Len(batches) : sink[k] = "ok"

\* C5: failed batches are excluded from the completed count: at the end of
\* the run completed, and the number of chunks the summary reports, are the
\* total size of the batches whose sink call succeeded.
C5_FailedBatchesNotCounted ==
    pc = "finished" =>
        /\ completed = SucceededSize(Len(batches))
        /\ summary.chunks = SucceededSize(Len(batches))

\* C6: each batch adds its own size to completed: in a run without sink
\* failures over N chunks, completed is N once the last batch is collected,
\* also when batch_size does not divide N.
C6_CompletedIsChunkCount ==
    (pc \in {"summary", "finished"} /\ SinkFailures = {}) =>
        completed = Len(all_chunks)

\* C7: with a batch_size above zero, whatever batches fail and whatever the
\* size of the pool, the run collects every result, leaves the pool and
\* prints the final summary.
C7_RunEndsWithSummary ==
    (batch_size > 0) =>
        <>(pc = "finished" /\ collected = Len(batches) /\ summary # NoSummary)

\* C8: completed never decreases, every batch the collecting loop has
\* counted has had its own sink call return, and each counted batch has
\* been counted once: completed is batch_size times the futures collected.
C8_CountsOnlyReturnedBatches ==
    /\ [](\A j \in 1..collected :
             j <= Len(futures) /\ IsDone(futures[j]) /\ sink[j] # "none")
    /\ [](completed = collected * batch_size)
    /\ [][completed' >= completed /\ collected' >= collected]_vars

\* C8's case: a later batch has returned from the sink while an earlier one,
\* the next to be collected, has not, after a first batch was counted.
C8_Witness ==
    /\ pc = "collect"
    /\ collected >= 1
    /\ collected + 2 <= Len(futures)
    /\ ~IsDone(futures[collected + 1])
    /\ IsDone(futures[collected + 2])

\* C9: a progress observation is printed at every step of the collecting
\* loop that takes completed from below a multiple of the interval to that
\* multiple or above it (the step that ends in the division by zero of C10
\* set aside).
C9_ProgressOnEveryCrossing ==
    [][(/\ pc = "collect"
        /\ collected' = collected + 1
        /\ completed' \div ProgressInterval > completed \div ProgressInterval)
       => (\/ Len(observations') = Len(observations) + 1
           \/ error' = "ZeroDivisionError")]_vars

\* C10: when the elapsed time read is zero the rate is skipped: no division
\* by zero ends the run, neither at a progress report nor at the summary.
C10_NoDivisionByZero ==
    /\ error # "ZeroDivisionError"
    /\ (PoolLeft /\ pc # "summary") => pc = "finished"

\* C11: batch_size = 0 is fatal: whatever the walk found, the run ends in
\* the error raised to the caller as soon as the walk is over, no batch is
\* assembled, queued or handed to the sink, and no summary is printed.
C11_ZeroBatchSizeIsFatal ==
    batch_size = 0 =>
        /\ pc \in {"walk", "error"}
        /\ pc = "error" => error = "ValueError"
        /\ batches = <<>>
        /\ futures = <<>>
        /\ sink_calls = <<>>
        /\ observations = <<>>
        /\ summary = NoSummary

\* C11's case: a run with batch_size = 0 over a walk that found chunks has
\* ended in the error.
C11_Witness ==
    /\ batch_size = 0
    /\ pc = "error"
    /\ Len(all_chunks) >= 2

\* The chunk records of the first n files of the walk that did not fail, in
\* walk order and in chunk order within each file.
RECURSIVE ChunksOfFiles(_)
ChunksOfFiles(n) ==
    IF n = 0 THEN <<>>
    ELSE ChunksOfFiles(n - 1)
           \o (IF files[n] = FileFails THEN <<>> ELSE [c \in 1..files[n] |-> <<n, c>>])

\* The files among the first n that failed.
FailedFiles(n) == {f \in 1..n : files[f] = FileFails}

\* C12: a failing file is skipped and nothing else: all through the walk
\* all_chunks is the concatenation, in walk order and in chunk order, of the
\* chunks of the visited files that did not fail, no chunk of a failing file
\* is in it, the list is what the batches are assembled from, and no failure
\* of a file ends the run: the walk is followed by the assembly.
C12_FailingFileSkipped ==
    /\ pc # "idle" => all_chunks = ChunksOfFiles(walked)
    /\ \A i \in 1..Len(all_chunks) : all_chunks[i][1] \notin FailedFiles(Len(files))
    /\ Assembled => walked = Len(files) /\ Flatten(batches) = ChunksOfFiles(Len(files))
    /\ pc = "error" => error \in {"ValueError", "ZeroDivisionError"}

\* C12's case: the walk is over and the batches assembled, a file that failed
\* lying before a file that yielded chunks.
C12_Witness ==
    /\ Assembled
    /\ \E f \in 1..Len(files) :
          /\ files[f] = FileFails
          /\ \E g \in (f + 1)..Len(files) : files[g] # FileFails /\ files[g] >= 1
    /\ all_chunks # <<>>

\* C13: after the cancellation signal no batch that no worker has taken yet
\* is handed to the sink, and the run ends with a summary of what was
\* completed so far.
C13_CancelStopsDispatch ==
    [][/\ error = "KeyboardInterrupt" =>
            \A j \in 1..Len(sink_calls) : sink_calls'[j] = sink_calls[j]
       /\ (pc' = "error" /\ error' = "KeyboardInterrupt" /\ collected' >= 1) =>
            summary' # NoSummary]_vars

\* C14, as claimed: the two paragraphs of 9 and 41 characters split with
\* max_chunk_size = 60 give two chunks, each one paragraph verbatim.
C14_TwoChunks ==
    (spc = "done" /\ max_chunk_size = 60) => chunks = <<ParaOne, ParaTwo>>

\* C14, amended: the two paragraphs of 9 and 41 characters split with
\* max_chunk_size = 60 give one chunk of 52 characters, the two paragraphs
\* joined by a blank line, since 9 + 41 <= 60.
C14_OneJoinedChunk ==
    (spc = "done" /\ max_chunk_size = 60) =>
        /\ chunks = <<ParaOne \o <<"\n", "\n">> \o ParaTwo>>
        /\ Len(chunks[1]) = 52

\* C14's case: the split of the two paragraphs with max_chunk_size = 60 has
\* returned.
C14_Witness ==
    /\ spc = "done"
    /\ max_chunk_size = 60
    /\ text = TwoParagraphs
    /\ Len(ParaOne) = 9
    /\ Len(ParaTwo) = 41
    /\ chunks # <<>>

\* The sizes of the batches, in order.
BatchSizes == [k \in 1..Len(batches) |-> Len(batches[k])]

\* C15, as claimed: three files of 10, 5 and 1 chunks with batch_size = 8
\* give batches of sizes 8, 7 and 1.
C15_Sizes871 ==
    (Assembled /\ files = <<10, 5, 1>> /\ batch_size = 8) => BatchSizes = <<8, 7, 1>>

\* C15, amended: three files of 10, 5 and 1 chunks with batch_size = 8 give
\* two batches of sizes 8 and 8, in file-then-chunk order: the first holds
\* the first eight chunks of the first file, the second its last two, the
\* five of the second file and the one of the third.
C15_Sizes88 ==
    (Assembled /\ files = <<10, 5, 1>> /\ batch_size = 8) =>
        /\ BatchSizes = <<8, 8>>
        /\ batches[1] = [c \in 1..8 |-> <<1, c>>]
        /\ batches[2] = <<<<1, 9>>, <<1, 10>>>> \o [c \in 1..5 |-> <<2, c>>] \o <<<<3, 1>>>>

\* C15's case: the batches of the three files are assembled.
C15_Witness ==
    /\ Assembled
    /\ files = <<10, 5, 1>>
    /\ batch_size = 8
    /\ Len(all_chunks) = 16

\* C16: every batch is handed to the sink once, by the one worker that
\* takes it: process_batch is called on a batch exactly when a worker takes
\* its future from the queue, never twice; at most num_workers calls run at
\* a time; every batch has its future before the collecting loop waits for
\* the first result; and once the pool is left no batch has been skipped.
C16_EachBatchOnce ==
    /\ \A j \in 1..Len(sink_calls) :
          sink_calls[j] = (IF j <= Len(futures) /\ futures[j] # "queued" THEN 1 ELSE 0)
    /\ Cardinality(Running) <= num_workers
    /\ pc \in {"collect", "unwind", "summary", "finished"} => Len(futures) = Len(batches)
    /\ PoolLeft => \A j \in 1..Len(batches) : sink_calls[j] = 1 /\ IsDone(futures[j])

\* C16's case: the collecting loop waits while two workers each run a batch
\* of their own and a third batch has already been through the sink.
C16_Witness ==
    /\ pc = "collect"
    /\ Cardinality(Running) >= 2
    /\ \E j \in 1..Len(futures) : IsDone(futures[j])
    /\ \A j \in 1..Len(batches) : sink_calls[j] = 1

\* The units that the chunks before chunk i hold.
UnitsBefore(i) == SumSeq(SubSeq(chunk_units, 1, i - 1))

\* C17: a sentence longer than max_chunk_size is a chunk of its own, whole:
\* in the list returned, the chunk that holds such a unit holds that unit
\* alone and is the sentence character for character, whatever units come
\* before and after it.
C17_OversizedSentenceAlone ==
    spc = "done" =>
        \A k \in 1..Len(SourceUnits) :
            Len(SourceUnits[k]) > max_chunk_size =>
                \E i \in 1..Len(chunks) :
                    /\ UnitsBefore(i) = k - 1
                    /\ chunk_units[i] = 1
                    /\ chunks[i] = SourceUnits[k]

\* C17's case: an oversized sentence lies between two units that fit, and
\* the split has returned the three chunks.
C17_Witness ==
    /\ spc = "done"
    /\ max_chunk_size >= 1
    /\ Len(SourceUnits) = 3
    /\ Len(SourceUnits[1]) <= max_chunk_size
    /\ Len(SourceUnits[2]) > max_chunk_size
    /\ Len(SourceUnits[3]) <= max_chunk_size
    /\ Len(chunks) = 3

\* C18: no chunk is empty or all white space, at any point of the split, and
\* a text that is empty or all white space yields the empty list.
C18_NoEmptyChunk ==
    /\ \A i \in 1..Len(chunks) : NoSpace(chunks[i]) # <<>>
    /\ (spc = "done" /\ NoSpace(text) = <<>>) => chunks = <<>>

\* C18's case: the split of a text of blanks and blank lines, of several
\* paragraphs, has returned.
C18_Witness ==
    /\ spc = "done"
    /\ text # <<>>
    /\ NoSpace(text) = <<>>
    /\ Len(SplitParagraphs(text)) >= 2

\* C19: the fit test leaves the separator out, so a joined buffer exceeds
\* max_chunk_size by at most the separator: a chunk or buffer of two or more
\* units is at most max_chunk_size + 2 long, a buffer that a sentence was
\* just joined to at most max_chunk_size + 1, a flushed chunk is the buffer
\* as its last join left it, and no unit is joined to a buffer longer than
\* max_chunk_size - 1.
C19_OvershootBounded ==
    /\ [](\A i \in 1..Len(chunks) :
             chunk_units[i] >= 2 => Len(chunks[i]) <= max_chunk_size + 2)
    /\ [](cur_units >= 2 => Len(current_chunk) <= max_chunk_size + 2)
    /\ [][LET joined == cur_units >= 1 /\ cur_units' = cur_units + 1
          IN  /\ (joined /\ spc = "sentences") =>
                    Len(current_chunk') <= max_chunk_size + 1
              /\ Len(current_chunk) > max_chunk_size - 1 => ~joined
              /\ Len(chunks') = Len(chunks) + 1 =>
                    /\ chunks'[Len(chunks')] = current_chunk
                    /\ chunk_units'[Len(chunks')] = cur_units]_vars

\* C19's case: a chunk joined from two paragraphs that fit together without
\* the blank line is returned, and is max_chunk_size + 2 long.
C19_Witness ==
    /\ spc = "done"
    /\ max_chunk_size >= 2
    /\ \E i \in 1..Len(chunks) :
          /\ chunk_units[i] = 2
          /\ Len(chunks[i]) = max_chunk_size + 2

\* C20: results are collected in submission order: the futures the loop has
\* been through are the first ones submitted, taken one at a time, each done
\* when it was taken; and while the next future in submission order is not
\* done the count and the progress reports stay as they are, whatever later
\* batches have finished.
C20_CollectedInSubmissionOrder ==
    /\ [](\A j \in 1..collected : j <= Len(futures) /\ IsDone(futures[j]))
    /\ [][/\ collected' \in {collected, collected + 1}
          /\ collected' = collected + 1 => IsDone(futures[collected + 1])
          /\ (pc = "collect" /\ collected < Len(futures)
                /\ ~IsDone(futures[collected + 1])) =>
                /\ completed' = completed
                /\ collected' = collected
                /\ observations' = observations]_vars

\* C20's case: nothing is counted yet, the first batch submitted is still in
\* its sink call and a batch submitted after it has finished.
C20_Witness ==
    /\ pc = "collect"
    /\ collected = 0
    /\ completed = 0
    /\ Len(futures) >= 2
    /\ futures[1] = "running"
    /\ \E j \in 2..Len(futures) : IsDone(futures[j])

====
